---- MODULE Spec2Model ----
(***************************************************************************)
(* Billing-state reconciliation of bandldisposal: the hooks of the         *)
(* residential-billing collection (beforeChange, afterChange, afterDelete) *)
(* that keep an account's balance, payment fields and lateness flag, the   *)
(* notification step they trigger, and the lateness computation of the     *)
(* commercial-accounts beforeChange hook.                                  *)
(*                                                                         *)
(* Time is an instant counted in ticks, TicksPerDay ticks to the day; a    *)
(* date-only value ('YYYY-MM-DD') is a day number >= 1 and NoDate is an    *)
(* absent date.  Money is an integer amount.                               *)
(***************************************************************************)
EXTENDS Integers, Sequences, FiniteSets, TLC

\* ---------------------------------------------------------------- bounds
MaxRecs == 1
MaxAmt == 2
MaxBal == 3
MaxNow == 5
MaxDueDate == 1
MaxBills == 4
MaxInvoices == 3

\* ------------------------------------------------------ program constants
TicksPerDay == 2
NoDate == 0
Unset == -1
DefaultGracePeriodDays == 5
DefaultDueDays == 30

Statuses == {"pending", "paid", "overdue", "cancelled"}
NoStatus == ""
NoAccount == ""
RecIds == 1..MaxRecs
Amounts == 0..MaxAmt

Max(a, b) == IF a > b THEN a ELSE b

\* new Date(): the calendar day of an instant, and the instant of a date's midnight
Day(t) == t \div TicksPerDay
Midnight(d) == d * TicksPerDay

\* `x || 0` on an optional number
Or0(x) == IF x = Unset THEN 0 ELSE x

\* ------------------------------------------------- residential-billing hooks

\* (the due date derived from the billing date also when one is given)
BeforeChangeBug(data, t) ==
  LET d1 == IF data.billingDate # NoDate
            THEN [data EXCEPT !.dueDate = data.billingDate + DefaultDueDays]
            ELSE data
  IN IF /\ d1.dueDate # NoDate
        /\ d1.status # "paid"
        /\ d1.status # "cancelled"
        /\ Day(t) > d1.dueDate
        /\ (d1.status = NoStatus \/ d1.status = "pending")
     THEN [d1 EXCEPT !.status = "overdue"]
     ELSE d1

\* beforeChange: the due date defaults to billingDate + 30 days, and a record
\* whose due day has passed and whose status is unset or pending becomes overdue.
\* `data` is the incoming data: partial on an update (absent fields are
\* NoDate / NoStatus / Unset).
BeforeChange(data, t) ==
  LET d1 == IF data.billingDate # NoDate /\ data.dueDate = NoDate
            THEN [data EXCEPT !.dueDate = data.billingDate + DefaultDueDays]
            ELSE data
  IN IF /\ d1.dueDate # NoDate
        /\ d1.status # "paid"
        /\ d1.status # "cancelled"
        /\ Day(t) > d1.dueDate
        /\ (d1.status = NoStatus \/ d1.status = "pending")
     THEN [d1 EXCEPT !.status = "overdue"]
     ELSE d1

\* The document an update persists: the stored record with the fields the
\* (hook-processed) data carries laid over it.
MergeDoc(stored, data) ==
  [stored EXCEPT
     !.account = IF data.account = NoAccount THEN @ ELSE data.account,
     !.amount = IF data.amount = Unset THEN @ ELSE data.amount,
     !.status = IF data.status = NoStatus THEN @ ELSE data.status,
     !.paidAmount = IF data.paidAmount = Unset THEN @ ELSE data.paidAmount,
     !.paidDate = IF data.paidDate = NoDate THEN @ ELSE data.paidDate,
     !.dueDate = IF data.dueDate = NoDate THEN @ ELSE data.dueDate]

\* afterChange, lines 80-93: the balance delta of the event
BalanceChange(op, doc, prev) ==
  IF op = "create" THEN Or0(doc.amount)
  ELSE IF op = "update" THEN Or0(doc.amount) - Or0(prev.amount)
  ELSE IF op = "delete" THEN 0 - Or0(doc.amount)
  ELSE 0

\* `account.paymentInfo?.gracePeriodDays || 5`
GraceOf(account) ==
  IF account.gracePeriodDays = 0 THEN DefaultGracePeriodDays
  ELSE account.gracePeriodDays

\* afterChange, lines 95-105: updateData before the payment handling.
\* hasPaymentInfo tells whether updateData carries a paymentInfo group.
BaseUpdate(account, op, doc, prev) ==
  [accountBalance |-> account.accountBalance + BalanceChange(op, doc, prev),
   hasPaymentInfo |-> FALSE,
   lastPaymentDate |-> account.lastPaymentDate,
   lastPaymentAmount |-> account.lastPaymentAmount,
   isLate |-> account.isLate,
   gracePeriodDays |-> account.gracePeriodDays,
   nextBillingDate |-> account.nextBillingDate]

\* afterChange, lines 114-127: the status changed to paid
IntoPaid(upd, doc, t) ==
  LET paidAmount == IF Or0(doc.paidAmount) # 0 THEN Or0(doc.paidAmount) ELSE Or0(doc.amount)
  IN [upd EXCEPT
        !.hasPaymentInfo = TRUE,
        !.lastPaymentDate = IF doc.paidDate # NoDate THEN doc.paidDate ELSE Day(t),
        !.lastPaymentAmount = paidAmount,
        !.accountBalance = IF paidAmount > 0 THEN Max(0, @ - paidAmount) ELSE @]

\* afterChange, lines 128-133: the status changed from paid to something else
OutOfPaid(upd, prev) ==
  IF Or0(prev.paidAmount) > 0
  THEN [upd EXCEPT !.accountBalance = @ + Or0(prev.paidAmount)]
  ELSE upd

\* (the new paid amount subtracted instead of the difference)
StillPaidBug(upd, account, doc, prev, t) ==
  IF Or0(doc.paidAmount) = Or0(prev.paidAmount) THEN upd
  ELSE [upd EXCEPT
          !.accountBalance = Max(0, @ - Or0(doc.paidAmount)),
          !.hasPaymentInfo = TRUE,
          !.lastPaymentAmount = Or0(doc.paidAmount)]

\* afterChange, lines 134-147: still paid, the paid amount changed
StillPaid(upd, account, doc, prev, t) ==
  LET diff == Or0(doc.paidAmount) - Or0(prev.paidAmount)
  IN IF diff = 0 THEN upd
     ELSE LET u1 == [upd EXCEPT !.accountBalance = Max(0, @ - diff)]
          IN IF Or0(doc.paidAmount) > 0
             THEN [u1 EXCEPT
                     !.hasPaymentInfo = TRUE,
                     !.lastPaymentDate =
                        IF doc.paidDate # NoDate THEN doc.paidDate
                        ELSE IF account.lastPaymentDate # NoDate THEN account.lastPaymentDate
                        ELSE Day(t),
                     !.lastPaymentAmount = Or0(doc.paidAmount)]
             ELSE u1

\* afterChange, lines 107-148: the payment status handling of an update
PaymentStep(upd, account, op, doc, prev, t) ==
  IF op # "update" THEN upd
  ELSE IF doc.status = "paid" /\ prev.status # "paid" THEN IntoPaid(upd, doc, t)
  ELSE IF prev.status = "paid" /\ doc.status # "paid" THEN OutOfPaid(upd, prev)
  ELSE IF doc.status = "paid" /\ prev.status = "paid" THEN StillPaid(upd, account, doc, prev, t)
  ELSE upd

\* afterChange, lines 155-158: the bill is open and past due date + grace
BillOpen(doc) ==
  doc.dueDate # NoDate /\ doc.status # "paid" /\ doc.status # "cancelled"

IsOverdue(account, doc, t) ==
  t > Midnight(doc.dueDate + GraceOf(account))

\* afterChange, lines 171-184: the account's late status
LateStep(upd, account, doc, t) ==
  IF ~BillOpen(doc) THEN upd
  ELSE LET bal == upd.accountBalance
           lpd == upd.lastPaymentDate
       IN [upd EXCEPT
             !.hasPaymentInfo = TRUE,
             !.isLate =
                IF IsOverdue(account, doc, t) /\ bal > 0
                THEN (IF lpd = NoDate \/ lpd < doc.dueDate THEN "late" ELSE "current")
                ELSE IF bal <= 0 THEN "current"
                ELSE @]

\* afterChange, lines 80-185: the data of the account update
UpdateData(account, op, doc, prev, t) ==
  LateStep(PaymentStep(BaseUpdate(account, op, doc, prev), account, op, doc, prev, t),
           account, doc, t)

\* payload.update on the account, lines 187-192: billingInfo is replaced (the
\* group as it was read, with the new balance), and paymentInfo too when
\* updateData carries one.
ApplyUpdate(stored, upd) ==
  IF upd.hasPaymentInfo
  THEN [stored EXCEPT
          !.accountBalance = upd.accountBalance,
          !.nextBillingDate = upd.nextBillingDate,
          !.lastPaymentDate = upd.lastPaymentDate,
          !.lastPaymentAmount = upd.lastPaymentAmount,
          !.isLate = upd.isLate,
          !.gracePeriodDays = upd.gracePeriodDays]
  ELSE [stored EXCEPT !.accountBalance = upd.accountBalance,
                      !.nextBillingDate = upd.nextBillingDate]

\* afterDelete, lines 275-289: the data of the account update
DeleteData(account, doc) ==
  [accountBalance |-> account.accountBalance - Or0(doc.amount),
   hasPaymentInfo |-> FALSE,
   lastPaymentDate |-> account.lastPaymentDate,
   lastPaymentAmount |-> account.lastPaymentAmount,
   isLate |-> account.isLate,
   gracePeriodDays |-> account.gracePeriodDays,
   nextBillingDate |-> account.nextBillingDate]

\* afterChange, line 64, and afterDelete, line 260: the account a document
\* refers to, NoAccount when the reference is absent or is not a string id
\* (a document without a reference reconciled against the first account)
AccountRefBug(doc) == IF doc.account = NoAccount THEN "acc1" ELSE doc.account

\* (every document reconciled against the first account)
AccountRefFirst(doc) == "acc1"

AccountRef(doc) == doc.account

\* ------------------------------------------------------------------- state
\* now       the clock, in ticks
\* accounts  the accounts collection, by id (exists = FALSE: no such document)
\* records   the residential-billing collection, by id
\* last      the billing-record mutation of the current instant and what its
\*           hooks did (op = "none": none yet)
\* contrib   per record, the sum of the balance changes its events made
\* faulted   whether some reconciliation so far failed
\* paidFrom  set by a transition into paid: the balance before it; cleared by
\*           every other mutation
\* conc      the billing-record mutations whose hooks run concurrently: per
\*           handler its mutation, its position and the account it read; and
\*           the account as it was before any of them
\* comm      a save of a commercial account: the data handed to beforeChange
\*           and the data it returned
\* bills     the billing numbers of the stored billing records (0: no record),
\*           and the number the last create generated
\* req       a billing-record mutation as it is submitted: its operation and
\*           data, and the record and the accounts as they are before it
\* invoices  the invoices collection, by id
VARIABLES now, accounts, records, last, contrib, faulted, paidFrom, conc, comm, bills,
          req, invoices

vars == <<now, accounts, records, last, contrib, faulted, paidFrom, conc, comm, bills,
          req, invoices>>

NoRecord ==
  [exists |-> FALSE, account |-> NoAccount, amount |-> 0, status |-> NoStatus,
   paidAmount |-> Unset, paidDate |-> NoDate, dueDate |-> NoDate,
   stripeInvoiceId |-> FALSE]

NoSuchAccount ==
  [exists |-> FALSE, accountBalance |-> 0, lastPaymentDate |-> NoDate,
   lastPaymentAmount |-> Unset, isLate |-> "current", gracePeriodDays |-> 0,
   nextBillingDate |-> NoDate]

NewAccount(grace) ==
  [exists |-> TRUE, accountBalance |-> 0, lastPaymentDate |-> NoDate,
   lastPaymentAmount |-> Unset, isLate |-> "current", gracePeriodDays |-> grace,
   nextBillingDate |-> NoDate]

\* What the environment of one handler run does: fault is the persistence call
\* that throws (at most one each run), stripe / link / email are the answers of
\* createStripeInvoice ("none": not configured, null), getInvoicePaymentLink
\* and the mail transport.
Envs ==
  { [fault |-> "none", stripe |-> "none", link |-> "url", email |-> "sent"],
    [fault |-> "none", stripe |-> "ok", link |-> "url", email |-> "sent"],
    [fault |-> "none", stripe |-> "ok", link |-> "failed", email |-> "sent"],
    [fault |-> "none", stripe |-> "throw", link |-> "url", email |-> "sent"],
    [fault |-> "none", stripe |-> "none", link |-> "url", email |-> "failed"],
    [fault |-> "invoiceIdUpdate", stripe |-> "ok", link |-> "url", email |-> "sent"],
    [fault |-> "recUpdate", stripe |-> "none", link |-> "url", email |-> "sent"],
    [fault |-> "acctUpdate", stripe |-> "none", link |-> "url", email |-> "sent"] }

\* The runs without a notification step: only the persistence faults matter.
QuietEnvs == {e \in Envs : e.stripe = "none" /\ e.email = "sent"}

\* (the run for an update the hook issues itself taken for the run of a create)
InnerAfterChangeBug(accts, doc, prev, t) ==
  IF AccountRef(doc) = NoAccount \/ ~accts[AccountRef(doc)].exists THEN accts
  ELSE [accts EXCEPT ![AccountRef(doc)] =
          ApplyUpdate(@, UpdateData(accts[AccountRef(doc)], "create", doc, prev, t))]

\* afterChange as run for an update the hook issues itself (status: 'overdue',
\* stripeInvoiceId): such a document is never pending and overdue at once, so
\* the run issues no further record update, and no notification (an update).
InnerAfterChange(accts, doc, prev, t) ==
  IF AccountRef(doc) = NoAccount \/ ~accts[AccountRef(doc)].exists THEN accts
  ELSE [accts EXCEPT ![AccountRef(doc)] =
          ApplyUpdate(@, UpdateData(accts[AccountRef(doc)], "update", doc, prev, t))]

\* afterChange, lines 252-255, and afterDelete, lines 290-292: the catch block
\* logs the error and does not throw again.
CatchRethrows == FALSE

\* afterChange, lines 235-250: the catch block of the notification step logs
\* the error, tries the e-mail once more and does not throw again.
\* (the same catch block, throwing the error again)
NotifyCatchRethrowsBug == TRUE

NotifyCatchRethrows == FALSE

\* afterChange, lines 196-250: invoice creation, the record update that stores
\* the invoice id, payment link, e-mail; every failure is caught.
Notify(accts, recs, r, t, env) ==
  IF env.stripe = "ok" /\ env.fault # "invoiceIdUpdate"
  THEN LET recs2 == [recs EXCEPT ![r].stripeInvoiceId = TRUE]
       IN [accounts |-> InnerAfterChange(accts, recs2[r], recs[r], t),
           records |-> recs2,
           threw |-> FALSE]
  ELSE [accounts |-> accts, records |-> recs,
        threw |-> (NotifyCatchRethrows /\ (env.stripe = "throw" \/ env.stripe = "ok"))]

\* Whether an external step of the notification failed
ExtFailed(env) ==
  \/ env.stripe = "throw"
  \/ env.stripe = "ok" /\ (env.fault = "invoiceIdUpdate" \/ env.link = "failed")
  \/ env.email = "failed"

\* (the notification without the test of the operation)
NotifyWantedBug(op, doc) == doc.status # "cancelled"

\* afterChange, line 195: the notification runs for a create of a record that
\* is not cancelled
NotifyWanted(op, doc) == op = "create" /\ doc.status # "cancelled"

\* afterChange, lines 62-257, for the record r just persisted.  The result:
\* the collections afterwards, outcome ("skipped": no account reference,
\* "notFound", "error": a persistence call threw and the catch absorbed it,
\* "ok"), atWrite (the accounts as the update of line 188 left them), notified,
\* threw (an error left the hook).
AfterChange(accts, recs, r, op, prev, t, env) ==
  LET doc == recs[r]
      a == AccountRef(doc)
      quiet(o) == [accounts |-> accts, records |-> recs, outcome |-> o,
                   atWrite |-> accts, notified |-> FALSE, threw |-> FALSE]
  IN IF a = NoAccount THEN quiet("skipped")
     ELSE IF ~accts[a].exists THEN quiet("notFound")
     ELSE
       LET account == accts[a]
           upd == UpdateData(account, op, doc, prev, t)
           nest == BillOpen(doc) /\ IsOverdue(account, doc, t) /\ doc.status = "pending"
           caught == [quiet("error") EXCEPT !.threw = CatchRethrows]
       IN IF nest /\ env.fault = "recUpdate" THEN caught
          ELSE
            LET recs1 == IF nest THEN [recs EXCEPT ![r].status = "overdue"] ELSE recs
                accts1 == IF nest THEN InnerAfterChange(accts, recs1[r], doc, t) ELSE accts
            IN IF env.fault = "acctUpdate"
               THEN [accounts |-> accts1, records |-> recs1, outcome |-> "error",
                     atWrite |-> accts1, notified |-> FALSE, threw |-> CatchRethrows]
               ELSE
                 LET accts2 == [accts1 EXCEPT ![a] = ApplyUpdate(@, upd)]
                 IN IF NotifyWanted(op, doc)
                    THEN LET n == Notify(accts2, recs1, r, t, env)
                         IN [accounts |-> n.accounts, records |-> n.records, outcome |-> "ok",
                             atWrite |-> accts2, notified |-> TRUE, threw |-> n.threw]
                    ELSE [accounts |-> accts2, records |-> recs1, outcome |-> "ok",
                          atWrite |-> accts2, notified |-> FALSE, threw |-> FALSE]

\* afterDelete, lines 258-294, for the deleted document doc
AfterDelete(accts, recs, doc, env) ==
  LET a == AccountRef(doc)
      quiet(o) == [accounts |-> accts, records |-> recs, outcome |-> o,
                   atWrite |-> accts, notified |-> FALSE, threw |-> FALSE]
  IN IF a = NoAccount THEN quiet("skipped")
     ELSE IF ~accts[a].exists THEN quiet("notFound")
     ELSE IF env.fault = "acctUpdate" THEN [quiet("error") EXCEPT !.threw = CatchRethrows]
     ELSE LET accts2 == [accts EXCEPT ![a] = ApplyUpdate(@, DeleteData(accts[a], doc))]
          IN [accounts |-> accts2, records |-> recs, outcome |-> "ok",
              atWrite |-> accts2, notified |-> FALSE, threw |-> FALSE]

\* --------------------------------------------------------------- operations
PaidDates == {NoDate, 1}
DueDates == 1..MaxDueDate
BillingDates == {1}
PaidAmounts == {Unset} \cup Amounts

\* The data of a create (the status default 'pending' is applied before the
\* hooks run) and the partial data of an update.
CreateData ==
  [account : {"acc1"}, amount : Amounts, status : Statuses,
   paidAmount : PaidAmounts, paidDate : PaidDates,
   billingDate : BillingDates, dueDate : DueDates]

UpdatePatch ==
  [account : {NoAccount}, amount : {Unset} \cup Amounts, status : {NoStatus} \cup Statuses,
   paidAmount : PaidAmounts, paidDate : PaidDates,
   billingDate : {NoDate}, dueDate : {NoDate} \cup DueDates]

\* last: op, the record, the status the submitted data carried, the account as
\* line 188 wrote it, and the outcome
NoLast ==
  [op |-> "none", rec |-> 0, given |-> NoStatus, atWrite |-> NoSuchAccount,
   outcome |-> "none", notified |-> FALSE, extFailed |-> FALSE, result |-> "none"]

NoPaidFrom == [set |-> FALSE, rec |-> 0, bal |-> 0]

BalanceOf(accts, a) == IF a = NoAccount THEN 0 ELSE accts[a].accountBalance

NoConc == <<>>
BillIds == 1..MaxBills
NoBills == [number |-> [i \in BillIds |-> 0], generated |-> 0]
NoComm == [phase |-> "none"]
NoReq == [op |-> "none"]
NoInvoices == <<>>

InRange(accts) ==
  \A a \in DOMAIN accts : accts[a].accountBalance \in (0 - MaxBal)..MaxBal

\* The clock advances; `last` describes a mutation of the current instant only.
Tick ==
  /\ now < MaxNow
  /\ now' = now + 1
  /\ last' = NoLast
  /\ UNCHANGED <<accounts, records, contrib, faulted, paidFrom, conc, comm, bills, req, invoices>>

\* What a mutation leaves behind: the hook's result res for record r of account a.
\* An error leaving the hook rejects the mutation: the record write is rolled back.
Settle(op, r, a, prev, res, env, given) ==
  /\ InRange(res.accounts)
  /\ accounts' = IF res.threw THEN accounts ELSE res.accounts
  /\ records' = IF res.threw THEN records ELSE res.records
  /\ contrib' = [contrib EXCEPT ![r] =
                   IF op = "delete" /\ res.outcome # "ok" THEN 0
                   ELSE (IF op = "create" THEN 0 ELSE @)
                        + BalanceOf(res.accounts, a) - BalanceOf(accounts, a)]
  /\ faulted' = (faulted \/ res.outcome \in {"notFound", "error"})
  /\ paidFrom' = IF /\ op = "update"
                    /\ res.outcome = "ok"
                    /\ prev.status # "paid"
                    /\ res.records[r].status = "paid"
                 THEN [set |-> TRUE, rec |-> r, bal |-> BalanceOf(accounts, a)]
                 ELSE NoPaidFrom
  /\ last' = [op |-> op, rec |-> r, given |-> given,
              atWrite |-> IF a = NoAccount THEN NoSuchAccount ELSE res.atWrite[a],
              outcome |-> res.outcome, notified |-> res.notified,
              extFailed |-> (res.notified /\ ExtFailed(env)),
              result |-> IF res.threw THEN "rejected" ELSE "success"]
  /\ UNCHANGED <<now, conc, comm, bills, req, invoices>>

\* payload.create on residential-billing: beforeChange, the insert, afterChange
Create(r, data, env) ==
  /\ ~records[r].exists
  /\ LET d == BeforeChange(data, now)
         doc == [exists |-> TRUE, account |-> d.account, amount |-> d.amount,
                 status |-> d.status, paidAmount |-> d.paidAmount,
                 paidDate |-> d.paidDate, dueDate |-> d.dueDate,
                 stripeInvoiceId |-> FALSE]
         res == AfterChange(accounts, [records EXCEPT ![r] = doc], r, "create", doc, now, env)
     IN Settle("create", r, doc.account, NoRecord, res, env, data.status)

\* payload.update on residential-billing: beforeChange, the write, afterChange
Update(r, patch, env) ==
  /\ records[r].exists
  /\ LET prev == records[r]
         doc == MergeDoc(prev, BeforeChange(patch, now))
         res == AfterChange(accounts, [records EXCEPT ![r] = doc], r, "update", prev, now, env)
     IN Settle("update", r, doc.account, prev, res, env, patch.status)

\* payload.delete on residential-billing: the removal, afterDelete
Delete(r, env) ==
  /\ records[r].exists
  /\ LET doc == records[r]
         res == AfterDelete(accounts, [records EXCEPT ![r] = NoRecord], doc, env)
     IN Settle("delete", r, doc.account, doc, res, env, NoStatus)

\* ------------------------------------------------------------ specifications
\* Spec: the life of the billing records of one account that starts at
\* balance 0, with no fault and no invoicing service; payments carry no paid date.
NoFault == [fault |-> "none", stripe |-> "none", link |-> "url", email |-> "sent"]

Init ==
  /\ now = TicksPerDay + 1
  /\ accounts = [a \in {"acc1"} |-> NewAccount(1)]
  /\ records = [r \in RecIds |-> NoRecord]
  /\ last = NoLast
  /\ contrib = [r \in RecIds |-> 0]
  /\ faulted = FALSE
  /\ paidFrom = NoPaidFrom
  /\ conc = NoConc
  /\ comm = NoComm
  /\ bills = NoBills
  /\ req = NoReq
  /\ invoices = NoInvoices

Next ==
  \/ Tick
  \/ \E r \in RecIds, data \in {d \in CreateData : d.paidDate = NoDate} :
       Create(r, data, NoFault)
  \/ \E r \in RecIds, patch \in {d \in UpdatePatch : d.paidDate = NoDate} :
       Update(r, patch, NoFault)
  \/ \E r \in RecIds : Delete(r, NoFault)

Spec == Init /\ [][Next]_vars

\* SpecEvent: one mutation of the first record, with every fault and every
\* answer of the external services, from any state of the account and of the
\* record.  The hooks never read another billing record.
PreAccounts ==
  {NoSuchAccount} \cup
  { [NewAccount(g) EXCEPT !.accountBalance = b, !.isLate = l] :
      g \in {1}, b \in (0 - 1)..MaxBal, l \in {"current", "late"} }

PreRecords ==
  {NoRecord} \cup
  { [exists |-> TRUE, account |-> "acc1", amount |-> m, status |-> s, paidAmount |-> p,
     paidDate |-> NoDate, dueDate |-> d, stripeInvoiceId |-> FALSE] :
      m \in Amounts, s \in Statuses, p \in PaidAmounts, d \in DueDates }

InitEvent ==
  /\ now \in (TicksPerDay + 1)..MaxNow
  /\ accounts \in [{"acc1"} -> PreAccounts]
  /\ records \in { [r \in RecIds |-> IF r = 1 THEN p ELSE NoRecord] : p \in PreRecords }
  /\ last = NoLast
  /\ contrib = [r \in RecIds |-> 0]
  /\ faulted = FALSE
  /\ paidFrom = NoPaidFrom
  /\ conc = NoConc
  /\ comm = NoComm
  /\ bills = NoBills
  /\ req = NoReq
  /\ invoices = NoInvoices

NextEvent ==
  \/ \E data \in CreateData, env \in Envs :
       last.op = "none" /\ Create(1, data, env)
  \/ \E patch \in {d \in UpdatePatch : d.dueDate = NoDate}, env \in QuietEnvs :
       last.op = "none" /\ Update(1, patch, env)
  \/ \E env \in QuietEnvs :
       last.op = "none" /\ Delete(1, env)

SpecEvent == InitEvent /\ [][NextEvent]_vars

\* SpecGrace: the creation of a billing record, at any instant, for an account
\* of every grace period 0..MaxGrace, with no fault and no invoicing service.
MaxGrace == 2

InitGrace ==
  /\ now \in (TicksPerDay + 1)..MaxNow
  /\ \E g \in 0..MaxGrace : accounts = [a \in {"acc1"} |-> NewAccount(g)]
  /\ records = [r \in RecIds |-> NoRecord]
  /\ last = NoLast
  /\ contrib = [r \in RecIds |-> 0]
  /\ faulted = FALSE
  /\ paidFrom = NoPaidFrom
  /\ conc = NoConc
  /\ comm = NoComm
  /\ bills = NoBills
  /\ req = NoReq
  /\ invoices = NoInvoices

NextGrace == \E data \in CreateData : last.op = "none" /\ Create(1, data, NoFault)

SpecGrace == InitGrace /\ [][NextGrace]_vars

\* payload.find / payload.findByID on residential-billing.  The collection has
\* no beforeRead or afterRead hook: a read returns the stored document and
\* changes nothing.
ReadKinds == {"find", "findByID"}

Read(kind, r) ==
  /\ records[r].exists
  /\ last' = [NoLast EXCEPT !.op = kind, !.rec = r]
  /\ UNCHANGED <<now, accounts, records, contrib, faulted, paidFrom, conc, comm, bills, req, invoices>>

\* SpecLive: records are created as pending, time passes, and the records are
\* read again and again; nothing else writes to them.
NextLive ==
  \/ Tick
  \/ \E r \in RecIds, data \in {d \in CreateData : d.status = "pending" /\ d.paidDate = NoDate} :
       Create(r, data, NoFault)
  \/ \E r \in RecIds : Read("find", r)
  \/ \E r \in RecIds : Read("findByID", r)

SpecLive ==
  /\ Init
  /\ [][NextLive]_vars
  /\ WF_vars(Tick)
  /\ WF_vars(\E r \in RecIds : Read("find", r))
  /\ WF_vars(\E r \in RecIds : Read("findByID", r))

\* SpecConc: two billing-record mutations against the same account whose hooks
\* run concurrently.  Each hook reads the account (findByID, lines 70 / 266),
\* computes the update from what it read and writes it (payload.update, lines
\* 188 / 280); every await between is a point where the other hook may run.
\* The records are not overdue at the time of the run and no invoicing service
\* is configured, so the hooks issue no record update of their own.
Procs == {1, 2}

OpenRecord(m, s, p) ==
  [exists |-> TRUE, account |-> "acc1", amount |-> m, status |-> s, paidAmount |-> p,
   paidDate |-> NoDate, dueDate |-> MaxDueDate, stripeInvoiceId |-> FALSE]

\* The mutations in flight: creates, deletes, and updates that change the
\* amount or record a payment.
Mutations ==
  { [op |-> "create", prev |-> OpenRecord(m, "pending", Unset),
     doc |-> OpenRecord(m, "pending", Unset)] : m \in Amounts }
  \cup
  { [op |-> "delete", prev |-> OpenRecord(m, "pending", Unset),
     doc |-> OpenRecord(m, "pending", Unset)] : m \in Amounts }
  \cup
  { [op |-> "update", prev |-> OpenRecord(m, "pending", Unset),
     doc |-> OpenRecord(n, s, Unset)] : m \in Amounts, n \in Amounts, s \in {"pending", "paid"} }

\* The account update a hook computes from the account it read
HookData(account, m, t) ==
  IF m.op = "delete" THEN DeleteData(account, m.doc)
  ELSE UpdateData(account, m.op, m.doc, m.prev, t)

InitConc ==
  /\ now = TicksPerDay + 1
  /\ \E b \in Amounts :
       /\ accounts = [a \in {"acc1"} |-> [NewAccount(1) EXCEPT !.accountBalance = b]]
       /\ \E m1 \in Mutations, m2 \in Mutations :
            conc = [base |-> [NewAccount(1) EXCEPT !.accountBalance = b],
                    procs |-> [p \in Procs |->
                                 [pc |-> "start", mut |-> IF p = 1 THEN m1 ELSE m2,
                                  account |-> NoSuchAccount]]]
  /\ records = [r \in RecIds |-> NoRecord]
  /\ last = NoLast
  /\ contrib = [r \in RecIds |-> 0]
  /\ faulted = FALSE
  /\ paidFrom = NoPaidFrom
  /\ comm = NoComm
  /\ bills = NoBills
  /\ req = NoReq
  /\ invoices = NoInvoices

\* findByID: the hook of p reads the account
HookRead(p) ==
  /\ conc.procs[p].pc = "start"
  /\ conc' = [conc EXCEPT !.procs[p].pc = "read", !.procs[p].account = accounts["acc1"]]
  /\ UNCHANGED <<now, accounts, records, last, contrib, faulted, paidFrom, comm, bills, req, invoices>>

\* payload.update: the hook of p writes the account
HookWrite(p) ==
  /\ conc.procs[p].pc = "read"
  /\ accounts' = [accounts EXCEPT !["acc1"] =
                    ApplyUpdate(@, HookData(conc.procs[p].account, conc.procs[p].mut, now))]
  /\ conc' = [conc EXCEPT !.procs[p].pc = "done"]
  /\ UNCHANGED <<now, records, last, contrib, faulted, paidFrom, comm, bills, req, invoices>>

NextConc == \E p \in Procs : HookRead(p) \/ HookWrite(p)

SpecConc == InitConc /\ [][NextConc]_vars

\* SpecOne: one mutation of a billing record among two accounts, submitted as
\* req describes it, with no fault and no invoicing service.  The record may
\* refer to either account or to none; a create carries any data, and an
\* update changes the money and status fields, or the dates, or the account.
Accts == {"acc1", "acc2"}

OneNextBillingDates == {1, Day(MaxNow) + 2}

OneAccounts ==
  { [a \in Accts |->
       IF a = "acc1"
       THEN [NewAccount(1) EXCEPT !.accountBalance = b, !.nextBillingDate = n]
       ELSE [NewAccount(1) EXCEPT !.accountBalance = 1]] :
      b \in {0, 1, MaxBal}, n \in OneNextBillingDates }

OneRecords ==
  { [exists |-> TRUE, account |-> a, amount |-> m, status |-> s, paidAmount |-> p,
     paidDate |-> NoDate, dueDate |-> d, stripeInvoiceId |-> FALSE] :
      a \in {NoAccount} \cup Accts, m \in Amounts, s \in {"pending", "paid"},
      p \in PaidAmounts, d \in DueDates }

OneCreates ==
  [account : {NoAccount} \cup Accts, amount : Amounts, status : Statuses,
   paidAmount : {Unset, 1}, paidDate : PaidDates,
   billingDate : {NoDate} \cup BillingDates, dueDate : {NoDate} \cup DueDates]

\* The data of an update that carries no field
NoPatch ==
  [account |-> NoAccount, amount |-> Unset, status |-> NoStatus, paidAmount |-> Unset,
   paidDate |-> NoDate, billingDate |-> NoDate, dueDate |-> NoDate]

OnePatches ==
  { [NoPatch EXCEPT !.amount = m, !.status = s, !.paidAmount = p] :
      m \in {Unset} \cup Amounts, s \in {NoStatus, "pending", "paid"}, p \in PaidAmounts }
  \cup
  { [NoPatch EXCEPT !.billingDate = b, !.dueDate = d, !.status = s] :
      b \in {NoDate} \cup BillingDates, d \in {NoDate} \cup DueDates,
      s \in {NoStatus, "pending"} }
  \cup
  { [NoPatch EXCEPT !.account = a, !.amount = m] : a \in Accts, m \in {Unset, 1} }

InitOne ==
  /\ now \in (TicksPerDay + 1)..MaxNow
  /\ accounts \in OneAccounts
  /\ \/ /\ records = [r \in RecIds |-> NoRecord]
        /\ \E d \in OneCreates :
             req = [op |-> "create", data |-> d, prev |-> NoRecord, before |-> accounts]
     \/ \E p \in OneRecords :
          /\ records = [r \in RecIds |-> IF r = 1 THEN p ELSE NoRecord]
          /\ \/ \E d \in OnePatches :
                  req = [op |-> "update", data |-> d, prev |-> p, before |-> accounts]
             \/ req = [op |-> "delete", data |-> NoPatch, prev |-> p, before |-> accounts]
  /\ last = NoLast
  /\ contrib = [r \in RecIds |-> 0]
  /\ faulted = FALSE
  /\ paidFrom = NoPaidFrom
  /\ conc = NoConc
  /\ comm = NoComm
  /\ bills = NoBills
  /\ invoices = NoInvoices

SubmitCreate == req.op = "create" /\ last.op = "none" /\ Create(1, req.data, NoFault)

SubmitUpdate == req.op = "update" /\ last.op = "none" /\ Update(1, req.data, NoFault)

SubmitDelete == req.op = "delete" /\ last.op = "none" /\ Delete(1, NoFault)

NextOne == SubmitCreate \/ SubmitUpdate \/ SubmitDelete

SpecOne == InitOne /\ [][NextOne]_vars

\* SpecEdit: the hook of one billing-record mutation runs while the account is
\* edited directly (payload.update on accounts with the one field): the edit
\* may commit before the hook reads the account, between its read and its
\* write, or after its write.
NoEdit == [field |-> "none", value |-> 0]

Edits ==
  { [field |-> "gracePeriodDays", value |-> 2],
    [field |-> "nextBillingDate", value |-> MaxDueDate + 1] }

InitEdit ==
  /\ now = TicksPerDay + 1
  /\ \E b \in Amounts :
       /\ accounts = [a \in {"acc1"} |-> [NewAccount(1) EXCEPT !.accountBalance = b]]
       /\ \E m \in Mutations :
            conc = [base |-> [NewAccount(1) EXCEPT !.accountBalance = b],
                    procs |-> [p \in Procs |->
                                 [pc |-> "start", mut |-> m, account |-> NoSuchAccount]],
                    edit |-> NoEdit]
  /\ records = [r \in RecIds |-> NoRecord]
  /\ last = NoLast
  /\ contrib = [r \in RecIds |-> 0]
  /\ faulted = FALSE
  /\ paidFrom = NoPaidFrom
  /\ comm = NoComm
  /\ bills = NoBills
  /\ req = NoReq
  /\ invoices = NoInvoices

EditAccount(e) ==
  /\ conc.edit = NoEdit
  /\ accounts' = [accounts EXCEPT !["acc1"] =
                    IF e.field = "gracePeriodDays"
                    THEN [@ EXCEPT !.gracePeriodDays = e.value]
                    ELSE [@ EXCEPT !.nextBillingDate = e.value]]
  /\ conc' = [conc EXCEPT !.edit = e]
  /\ UNCHANGED <<now, records, last, contrib, faulted, paidFrom, comm, bills, req, invoices>>

NextEdit ==
  \/ HookRead(1)
  \/ HookWrite(1)
  \/ \E e \in Edits : EditAccount(e)

SpecEdit == InitEdit /\ [][NextEdit]_vars

\* ---------------------------------------------------------- billing numbers
\* The numbering step of beforeChange (lines 31-36) reads nothing but the
\* number of stored records, and the unique index on billingNumber (lines
\* 297-303) nothing but the stored numbers: they are modelled apart from the
\* rest of the record, on bills.  A number n stands for its text, 'BILL-'
\* followed by n padded to six digits, which differs for different n.  With a
\* single stored record, as in Spec, no number is ever taken twice.

\* payload.count({collection: 'residential-billing'}).totalDocs
CountOf(number) == Cardinality({i \in BillIds : number[i] # 0})

\* lines 31-35: the number generated after counting `count` records
BillingNumber(count) == count + 1

\* unique: true -- the insert of a record whose number is stored already fails
Taken(number, n) == \E i \in BillIds : number[i] = n

\* payload.create of record i, the count and the insert in one step
CreateBill(i) ==
  /\ bills.number[i] = 0
  /\ LET n == BillingNumber(CountOf(bills.number))
     IN /\ bills' = [number |-> IF Taken(bills.number, n) THEN bills.number
                                ELSE [bills.number EXCEPT ![i] = n],
                     generated |-> n]
        /\ last' = [NoLast EXCEPT !.op = "create", !.rec = i,
                                  !.result = IF Taken(bills.number, n) THEN "rejected"
                                             ELSE "success"]
  /\ UNCHANGED <<now, accounts, records, contrib, faulted, paidFrom, conc, comm, req, invoices>>

\* payload.delete of record i
DeleteBill(i) ==
  /\ bills.number[i] # 0
  /\ bills' = [number |-> [bills.number EXCEPT ![i] = 0], generated |-> 0]
  /\ last' = [NoLast EXCEPT !.op = "delete", !.rec = i, !.result = "success"]
  /\ UNCHANGED <<now, accounts, records, contrib, faulted, paidFrom, conc, comm, req, invoices>>

\* SpecNumber: creates and deletes of billing records, one at a time
NextNumber == \E i \in BillIds : CreateBill(i) \/ DeleteBill(i)

SpecNumber == Init /\ [][NextNumber]_vars

\* SpecNumberConc: two creates run concurrently, of the records 1 and 2, while
\* the other records are stored under any distinct numbers.  A create counts
\* the records in beforeChange and inserts its record afterwards.
StoredNumbers ==
  { f \in [BillIds -> 0..MaxBills] :
      /\ \A p \in Procs : f[p] = 0
      /\ \A i \in BillIds, j \in BillIds : (i # j /\ f[i] # 0) => f[i] # f[j] }

InitNumberConc ==
  /\ now = TicksPerDay + 1
  /\ accounts = [a \in {"acc1"} |-> NewAccount(1)]
  /\ records = [r \in RecIds |-> NoRecord]
  /\ last = NoLast
  /\ contrib = [r \in RecIds |-> 0]
  /\ faulted = FALSE
  /\ paidFrom = NoPaidFrom
  /\ conc = [procs |-> [p \in Procs |-> [pc |-> "start", count |-> 0]]]
  /\ comm = NoComm
  /\ \E f \in StoredNumbers : bills = [number |-> f, generated |-> 0]
  /\ req = NoReq
  /\ invoices = NoInvoices

\* beforeChange of the create of p, lines 31-35: count the records
CountRecords(p) ==
  /\ conc.procs[p].pc = "start"
  /\ conc' = [conc EXCEPT !.procs[p].pc = "counted",
                          !.procs[p].count = CountOf(bills.number)]
  /\ UNCHANGED <<now, accounts, records, last, contrib, faulted, paidFrom, comm, bills, req, invoices>>

\* the insert of the create of p, under the unique index
InsertRecord(p) ==
  /\ conc.procs[p].pc = "counted"
  /\ LET n == BillingNumber(conc.procs[p].count)
     IN /\ bills' = [number |-> IF Taken(bills.number, n) THEN bills.number
                                ELSE [bills.number EXCEPT ![p] = n],
                     generated |-> n]
        /\ conc' = [conc EXCEPT !.procs[p].pc =
                      IF Taken(bills.number, n) THEN "rejected" ELSE "created"]
  /\ UNCHANGED <<now, accounts, records, last, contrib, faulted, paidFrom, comm, req, invoices>>

NextNumberConc == \E p \in Procs : CountRecords(p) \/ InsertRecord(p)

SpecNumberConc == InitNumberConc /\ [][NextNumberConc]_vars

\* ------------------------------------------------------------------ invoices
\* The invoices collection: an invoice has a customer (an account) and an
\* invoice number, the code of the customer's borough and a sequence number; a
\* number [code, n] stands for its text, the code, '-' and n padded to six
\* digits.  Data that carries no customer or no number has NoAccount or
\* NoNumber there.
InvIds == 1..MaxInvoices
NoNumber == [code |-> "", n |-> 0]
NoInvoice == [exists |-> FALSE, customer |-> NoAccount, number |-> NoNumber]

\* borough.code of the borough of the account
BoroughCode(customer) == IF customer = "acc1" THEN "BK" ELSE "QN"

\* lines 206-220: the invoices whose number starts with the code and '-'
MatchingInvoices(invs, code) == {i \in InvIds : invs[i].exists /\ invs[i].number.code = code}

\* lines 222-224: the next sequential number of the customer's borough
NextInvoiceNumber(invs, customer) ==
  [code |-> BoroughCode(customer),
   n |-> Cardinality(MatchingInvoices(invs, BoroughCode(customer))) + 1]

\* lines 231-236: the number generated when the lookup failed
FallbackNumber(invs) == [code |-> "INV", n |-> Cardinality({i \in InvIds : invs[i].exists}) + 1]

\* Invoices.hooks.beforeChange, lines 152-241; lookup = "throw": findByID fails
InvoiceBeforeChange(data, originalDoc, invs, lookup) ==
  IF data.customer = NoAccount THEN data
  ELSE LET customerChanged == /\ originalDoc.exists
                              /\ originalDoc.customer # NoAccount
                              /\ originalDoc.customer # data.customer
           shouldGenerate == data.number = NoNumber \/ customerChanged
       IN IF ~shouldGenerate THEN data
          ELSE IF lookup = "throw"
               THEN (IF data.number = NoNumber
                     THEN [data EXCEPT !.number = FallbackNumber(invs)]
                     ELSE data)
          ELSE [data EXCEPT !.number = NextInvoiceNumber(invs, data.customer)]

\* Invoices.fields.customer.hooks.beforeChange, lines 252-317: runs when the
\* data carries a customer
CustomerBeforeChange(data, invs, lookup) ==
  IF data.customer # NoAccount /\ lookup # "throw"
  THEN [data EXCEPT !.number = NextInvoiceNumber(invs, data.customer)]
  ELSE data

\* The document a save writes: the collection hook, then the field hook, then
\* the data laid over the stored invoice
SavedInvoice(stored, data, invs, lookup) ==
  LET d == CustomerBeforeChange(InvoiceBeforeChange(data, stored, invs, lookup), invs, lookup)
  IN [exists |-> TRUE,
      customer |-> IF d.customer = NoAccount THEN stored.customer ELSE d.customer,
      number |-> IF d.number = NoNumber THEN stored.number ELSE d.number]

\* lines 246-249 and 322-325: customer and invoiceNumber are required, and
\* invoiceNumber is unique
InvoiceValid(i, doc, invs) ==
  /\ doc.customer # NoAccount
  /\ doc.number # NoNumber
  /\ \A j \in InvIds \ {i} : ~(invs[j].exists /\ invs[j].number = doc.number)

\* payload.create / payload.update on invoices.  An update carries the customer
\* or not, and the stored number (the whole document saved again) or none.
SaveInvoice(i, data, lookup) ==
  /\ ~invoices[i].exists => data.customer # NoAccount /\ data.number = NoNumber
  /\ invoices[i].exists => data.number \in {NoNumber, invoices[i].number}
  /\ LET doc == SavedInvoice(invoices[i], data, invoices, lookup)
     IN IF InvoiceValid(i, doc, invoices)
        THEN /\ invoices' = [invoices EXCEPT ![i] = doc]
             /\ last' = [NoLast EXCEPT !.op = "save", !.rec = i, !.result = "success"]
        ELSE /\ invoices' = invoices
             /\ last' = [NoLast EXCEPT !.op = "save", !.rec = i, !.result = "rejected"]
  /\ UNCHANGED <<now, accounts, records, contrib, faulted, paidFrom, conc, comm, bills, req>>

\* payload.delete on invoices
DeleteInvoice(i) ==
  /\ invoices[i].exists
  /\ invoices' = [invoices EXCEPT ![i] = NoInvoice]
  /\ last' = [NoLast EXCEPT !.op = "delete", !.rec = i, !.result = "success"]
  /\ UNCHANGED <<now, accounts, records, contrib, faulted, paidFrom, conc, comm, bills, req>>

InvoiceNumbers ==
  {NoNumber} \cup [code : {"BK", "QN", "INV"}, n : 1..(MaxInvoices + 1)]

InvoiceData == [customer : {NoAccount} \cup {"acc1", "acc2"}, number : InvoiceNumbers]

InitInvoice ==
  /\ now = TicksPerDay + 1
  /\ accounts = [a \in {"acc1"} |-> NewAccount(1)]
  /\ records = [r \in RecIds |-> NoRecord]
  /\ last = NoLast
  /\ contrib = [r \in RecIds |-> 0]
  /\ faulted = FALSE
  /\ paidFrom = NoPaidFrom
  /\ conc = NoConc
  /\ comm = NoComm
  /\ bills = NoBills
  /\ req = NoReq
  /\ invoices = [i \in InvIds |-> NoInvoice]

NextInvoice ==
  \/ \E i \in InvIds, data \in InvoiceData, lookup \in {"ok", "throw"} :
       SaveInvoice(i, data, lookup)
  \/ \E i \in InvIds : DeleteInvoice(i)

SpecInvoice == InitInvoice /\ [][NextInvoice]_vars

\* ------------------------------------------------- commercial account save
\* The calendar behind JavaScript's Date: day 1 is 1 January of EpochYear, a
\* month is its index 0..11, an instant is a number of ticks.
EpochYear == 2024
Years == EpochYear..(EpochYear + 3)

IsLeap(y) == (y % 4 = 0 /\ y % 100 # 0) \/ y % 400 = 0

DaysInYear(y) == IF IsLeap(y) THEN 366 ELSE 365

DaysInMonth(y, m) ==
  IF m = 1 THEN (IF IsLeap(y) THEN 29 ELSE 28)
  ELSE IF m \in {3, 5, 8, 10} THEN 30 ELSE 31

RECURSIVE DaysBeforeYear(_)
DaysBeforeYear(y) == IF y <= EpochYear THEN 0 ELSE DaysBeforeYear(y - 1) + DaysInYear(y - 1)

RECURSIVE DaysBeforeMonth(_, _)
DaysBeforeMonth(y, m) == IF m <= 0 THEN 0 ELSE DaysBeforeMonth(y, m - 1) + DaysInMonth(y, m - 1)

\* The day number of the first of month m of year y; a month index past 11
\* rolls into the following years, as Date.setMonth does.
FirstOfMonth(y, m) == 1 + DaysBeforeYear(y + (m \div 12)) + DaysBeforeMonth(y + (m \div 12), m % 12)

\* getFullYear, getMonth, getDate of the day d
YearOf(d) == CHOOSE y \in Years : DaysBeforeYear(y) < d /\ d <= DaysBeforeYear(y) + DaysInYear(y)
MonthOf(d) ==
  CHOOSE m \in 0..11 : FirstOfMonth(YearOf(d), m) <= d /\ d < FirstOfMonth(YearOf(d), m) + DaysInMonth(YearOf(d), m)
DateOf(d) == d - FirstOfMonth(YearOf(d), MonthOf(d)) + 1

TimeOfDay(t) == t % TicksPerDay

\* Date.setDate(n), setMonth(m), setFullYear(y) on the instant t: the other
\* components are kept and a day past the end of the month overflows.
SetDate(t, n) == Midnight(FirstOfMonth(YearOf(Day(t)), MonthOf(Day(t))) + n - 1) + TimeOfDay(t)
SetMonth(t, m) == Midnight(FirstOfMonth(YearOf(Day(t)), m) + DateOf(Day(t)) - 1) + TimeOfDay(t)
SetFullYear(t, y) == Midnight(FirstOfMonth(y, MonthOf(Day(t))) + DateOf(Day(t)) - 1) + TimeOfDay(t)

Cadences == {"weekly", "bi-weekly", "monthly", "quarterly", "annually"}
NoCadence == ""
NoBillingDate == 0
TicksPerWeek == 7 * TicksPerDay

\* (the bi-weekly periods added as if they were weeks)
WeeklyNextBillingBug(cadence, serviceStartDate, today) ==
  LET base == IF serviceStartDate # NoDate THEN Midnight(serviceStartDate) ELSE today
      weeksSinceStart == (today - base) \div TicksPerWeek
      periodsSinceStart == IF cadence = "weekly" THEN weeksSinceStart ELSE weeksSinceStart \div 2
  IN base + (periodsSinceStart + 1) * TicksPerWeek

\* lines 138-149: the next weekly or bi-weekly billing instant
WeeklyNextBilling(cadence, serviceStartDate, today) ==
  LET base == IF serviceStartDate # NoDate THEN Midnight(serviceStartDate) ELSE today
      weeksSinceStart == (today - base) \div TicksPerWeek
      periodsSinceStart == IF cadence = "weekly" THEN weeksSinceStart ELSE weeksSinceStart \div 2
      periodsToAdd == IF cadence = "weekly" THEN periodsSinceStart + 1 ELSE (periodsSinceStart + 1) * 2
  IN base + periodsToAdd * TicksPerWeek

\* (the billing day of this month, also when it has passed)
MonthlyNextBillingBug(cadence, billingDate, today) == SetDate(today, billingDate)

\* lines 150-168: the next monthly, quarterly or annual billing instant
MonthlyNextBilling(cadence, billingDate, today) ==
  LET nextBilling == SetDate(today, billingDate)
  IN IF ~(nextBilling < today) THEN nextBilling
     ELSE IF cadence = "monthly" THEN SetMonth(nextBilling, MonthOf(Day(nextBilling)) + 1)
     ELSE IF cadence = "quarterly" THEN SetMonth(nextBilling, MonthOf(Day(nextBilling)) + 3)
     ELSE IF cadence = "annually" THEN SetFullYear(nextBilling, YearOf(Day(nextBilling)) + 1)
     ELSE nextBilling

\* lines 125-176: nextBillingDate, formatted as a calendar date
ComputeNextBillingDate(data, today) ==
  IF data.hasBillingInfo /\ data.billingDate # NoBillingDate /\ data.billingCadence # NoCadence
  THEN [data EXCEPT !.nextBillingDate =
          Day(IF data.billingCadence \in {"weekly", "bi-weekly"}
              THEN WeeklyNextBilling(data.billingCadence, data.serviceStartDate, today)
              ELSE MonthlyNextBilling(data.billingCadence, data.billingDate, today))]
  ELSE data

\* lines 178-209: isLate
ComputeLateness(data, today) ==
  LET accountBalance == Or0(data.accountBalance)
      nextBillingDate == data.nextBillingDate
      lastPaymentDate == data.lastPaymentDate
      gracePeriodDays == IF Or0(data.gracePeriodDays) = 0 THEN DefaultGracePeriodDays
                         ELSE data.gracePeriodDays
      dueDate == Midnight(nextBillingDate)
      lateDate == Midnight(nextBillingDate + gracePeriodDays)
      isLate == /\ today > lateDate
                /\ accountBalance > 0
                /\ (lastPaymentDate = NoDate \/ Midnight(lastPaymentDate) < dueDate)
  IN IF ~(data.hasBillingInfo /\ data.hasPaymentInfo) THEN data
     ELSE IF nextBillingDate # NoDate /\ accountBalance > 0
          THEN [data EXCEPT !.isLate = IF isLate THEN "late" ELSE "current"]
     ELSE IF accountBalance <= 0 THEN [data EXCEPT !.isLate = "current"]
     ELSE data

\* CommercialAccounts beforeChange
CommercialBeforeChange(data, today) == ComputeLateness(ComputeNextBillingDate(data, today), today)

\* SpecAcct: one save of a commercial account.  The data handed to the hook is
\* the submitted document: a partial update may leave out either group or any
\* field of it; a full one carries the stored nextBillingDate and isLate.
MaxRefDay == 33
RefDays == (MaxRefDay - 3)..MaxRefDay
CommBillingDates == {NoBillingDate, 1, 15, 31}
CommStartDates == {NoDate, 10}
CommNextBillingDates == {NoDate, MaxRefDay - 8, MaxRefDay - 2}
CommPaymentDates == {NoDate, MaxRefDay - 10, MaxRefDay - 2}
CommGraces == {Unset, 0, 1}
CommBalances == {Unset, -1, 0, 1}

CommData ==
  { d \in [hasBillingInfo : BOOLEAN, hasPaymentInfo : BOOLEAN,
           billingDate : CommBillingDates, billingCadence : {NoCadence} \cup Cadences,
           serviceStartDate : CommStartDates, nextBillingDate : CommNextBillingDates,
           accountBalance : CommBalances, lastPaymentDate : CommPaymentDates,
           gracePeriodDays : CommGraces, isLate : {"current", "late"}] :
      /\ (~d.hasBillingInfo =>
            /\ d.billingDate = NoBillingDate /\ d.billingCadence = NoCadence
            /\ d.nextBillingDate = NoDate /\ d.accountBalance = Unset)
      /\ (~d.hasPaymentInfo =>
            /\ d.lastPaymentDate = NoDate /\ d.gracePeriodDays = Unset /\ d.isLate = "current")
      /\ (d.billingCadence \notin {"weekly", "bi-weekly"} => d.serviceStartDate = NoDate)
      /\ (d.billingCadence = NoCadence => d.billingDate = NoBillingDate) }

InitAcct ==
  /\ now \in { Midnight(d) + h : d \in RefDays, h \in 0..(TicksPerDay - 1) }
  /\ \E d \in CommData : comm = [phase |-> "submitted", data |-> d, saved |-> d]
  /\ accounts = [a \in {"acc1"} |-> NoSuchAccount]
  /\ records = [r \in RecIds |-> NoRecord]
  /\ last = NoLast
  /\ contrib = [r \in RecIds |-> 0]
  /\ faulted = FALSE
  /\ paidFrom = NoPaidFrom
  /\ conc = NoConc
  /\ bills = NoBills
  /\ req = NoReq
  /\ invoices = NoInvoices

SaveAccount ==
  /\ comm.phase = "submitted"
  /\ comm' = [comm EXCEPT !.phase = "saved", !.saved = CommercialBeforeChange(comm.data, now)]
  /\ UNCHANGED <<now, accounts, records, last, contrib, faulted, paidFrom, conc, bills, req, invoices>>

NextAcct == SaveAccount

SpecAcct == InitAcct /\ [][NextAcct]_vars

\* SpecNextBilling: the next billing date for every billing day of the month,
\* every cadence and every reference instant of the days 1..MaxCalDay (2024,
\* a leap year, and the first months of 2025), computed by a save and then
\* computed again at the returned date.
MaxCalDay == 430
BillingDays == 1..31
NextBillingStartDates == {NoDate, 10, 200}

NextBillingData ==
  { [hasBillingInfo |-> TRUE, hasPaymentInfo |-> FALSE,
     billingDate |-> b, billingCadence |-> c,
     serviceStartDate |-> s, nextBillingDate |-> NoDate,
     accountBalance |-> Unset, lastPaymentDate |-> NoDate,
     gracePeriodDays |-> Unset, isLate |-> "current"] :
       b \in BillingDays, c \in {"monthly", "quarterly", "annually"}, s \in {NoDate} }
  \cup
  { [hasBillingInfo |-> TRUE, hasPaymentInfo |-> FALSE,
     billingDate |-> b, billingCadence |-> c,
     serviceStartDate |-> s, nextBillingDate |-> NoDate,
     accountBalance |-> Unset, lastPaymentDate |-> NoDate,
     gracePeriodDays |-> Unset, isLate |-> "current"] :
       b \in {1}, c \in {"weekly", "bi-weekly"}, s \in NextBillingStartDates }

InitNextBilling ==
  /\ now \in { Midnight(d) + h : d \in 1..MaxCalDay, h \in 0..(TicksPerDay - 1) }
  /\ \E d \in NextBillingData :
       comm = [phase |-> "submitted", data |-> d, saved |-> d, first |-> NoDate]
  /\ accounts = [a \in {"acc1"} |-> NoSuchAccount]
  /\ records = [r \in RecIds |-> NoRecord]
  /\ last = NoLast
  /\ contrib = [r \in RecIds |-> 0]
  /\ faulted = FALSE
  /\ paidFrom = NoPaidFrom
  /\ conc = NoConc
  /\ bills = NoBills
  /\ req = NoReq
  /\ invoices = NoInvoices

\* The same data saved again, at the start of the day the first save returned
SaveAgain ==
  /\ comm.phase = "saved"
  /\ comm.saved.nextBillingDate # NoDate
  /\ LET t == Midnight(comm.saved.nextBillingDate)
     IN /\ now' = t
        /\ comm' = [comm EXCEPT !.phase = "savedAgain",
                                !.first = comm.saved.nextBillingDate,
                                !.saved = CommercialBeforeChange(comm.data, t)]
  /\ UNCHANGED <<accounts, records, last, contrib, faulted, paidFrom, conc, bills, req, invoices>>

NextNextBilling == SaveAccount \/ SaveAgain

SpecNextBilling == InitNextBilling /\ [][NextNextBilling]_vars

\* ------------------------------------------------------------------- claims
\* The settlement amount of a record as the ledger counts it: paidAmount, or
\* amount when paidAmount is unspecified.
Settlement(rec) == IF rec.paidAmount = Unset THEN rec.amount ELSE rec.paidAmount

\* What record r contributes to the ledger of account a
LedgerOf(r, a) ==
  IF records[r].exists /\ records[r].account = a
  THEN records[r].amount - (IF records[r].status = "paid" THEN Settlement(records[r]) ELSE 0)
  ELSE 0

RECURSIVE LedgerSum(_, _)
LedgerSum(rs, a) ==
  IF rs = {} THEN 0
  ELSE LET r == CHOOSE x \in rs : TRUE IN LedgerOf(r, a) + LedgerSum(rs \ {r}, a)

\* C1: ledger invariant.  For an account that starts at balance 0 and is changed
\* only by billing-record events, none of which failed, accountBalance equals
\* the sum of the amounts of the existing records minus the sum of the
\* settlement amounts of the records that are currently paid.
C1_LedgerInvariant ==
  ~faulted => accounts["acc1"].accountBalance = LedgerSum(RecIds, "acc1")

\* C7: a transition out of paid that directly follows the transition into paid
\* of the same record, amount unchanged, restores the balance the account had
\* before the record was marked paid.
C7_UnpayRestores ==
  [][ \A r \in RecIds :
        ( /\ paidFrom.set /\ paidFrom.rec = r
          /\ records[r].exists /\ records[r].status = "paid"
          /\ last'.op = "update" /\ last'.rec = r /\ last'.outcome = "ok"
          /\ records'[r].status # "paid"
          /\ records'[r].amount = records[r].amount )
        => accounts'["acc1"].accountBalance = paidFrom.bal ]_vars

\* C8: deleting a record reverses its balance contribution: after the delete
\* the balance changes its events made add up to 0.
C8_DeleteReverses ==
  (last.op = "delete" /\ last.outcome = "ok") => contrib[last.rec] = 0

\* C9: after every reconciled event, a resulting balance <= 0 means the account
\* is current.
C9_CurrentWhenSettled ==
  (last.op # "none" /\ last.outcome = "ok" /\ accounts["acc1"].accountBalance <= 0)
    => accounts["acc1"].isLate = "current"

Failed(l) == l.outcome \in {"notFound", "error"}

\* C3: no partial application.  When the reconciliation of a mutation fails (account not
\* found, or persisting the account update fails), the mutation is rejected.
C3_FailureRejects == Failed(last) => last.result = "rejected"

\* C4: when invoice creation, the payment-link lookup or the e-mail fails
\* during a create, the create reports success and the account is exactly as
\* the reconciliation wrote it.
C4_ExternalFailureAbsorbed ==
  last.extFailed =>
    /\ last.op = "create"
    /\ last.result = "success"
    /\ last.outcome = "ok"
    /\ records[last.rec].exists
    /\ accounts["acc1"] = last.atWrite

\* the payment link failed after the invoice id was stored on the record
C4_Witness ==
  /\ last.extFailed /\ records[last.rec].stripeInvoiceId
  /\ accounts["acc1"].accountBalance > 0

\* C5: the notification is attempted only for a create of a record that is not
\* cancelled, and only after the account update of that create was persisted.
C5_NotifyOnlyAfterCreate ==
  last.notified =>
    /\ last.op = "create"
    /\ records[last.rec].exists
    /\ records[last.rec].status # "cancelled"
    /\ last.outcome = "ok"
    /\ last.atWrite.exists

C5_Witness ==
  /\ last.notified /\ last.op = "create"
  /\ records[last.rec].status = "overdue" /\ accounts["acc1"].isLate = "late"

\* An update that moved record r from a non-paid status into paid and whose
\* account update was persisted
IntoPaidStep(r) ==
  /\ records[r].exists /\ records[r].status # "paid"
  /\ last'.op = "update" /\ last'.rec = r /\ last'.outcome = "ok"
  /\ records'[r].status = "paid"

\* C6: on an update into paid the balance becomes
\* max(0, old + (newAmount - oldAmount) - settlement), settlement being the
\* paidAmount, or the amount when paidAmount is unspecified; lastPaymentAmount
\* is the settlement and lastPaymentDate the paidDate (today when absent).
C6_IntoPaid ==
  [][ \A r \in RecIds : IntoPaidStep(r) =>
        LET s == Settlement(records'[r])
            nb == accounts["acc1"].accountBalance + records'[r].amount - records[r].amount
        IN /\ accounts'["acc1"].accountBalance = Max(0, nb - s)
           /\ accounts'["acc1"].lastPaymentAmount = s
           /\ accounts'["acc1"].lastPaymentDate =
                IF records'[r].paidDate # NoDate THEN records'[r].paidDate ELSE Day(now) ]_vars

\* The balance after the hooks of m1 and then m2 ran one after the other
SerialBalance(m1, m2) ==
  LET a1 == ApplyUpdate(conc.base, HookData(conc.base, m1, now))
  IN ApplyUpdate(a1, HookData(a1, m2, now)).accountBalance

\* C2: whatever the interleaving of the two hooks' account reads and writes,
\* the final balance is the balance of the two mutations applied one after the
\* other in some order.
C2_NoLostUpdate ==
  (\A p \in Procs : conc.procs[p].pc = "done") =>
     accounts["acc1"].accountBalance \in
       { SerialBalance(conc.procs[1].mut, conc.procs[2].mut),
         SerialBalance(conc.procs[2].mut, conc.procs[1].mut) }

\* The grace period of a submitted account: the field's default when absent
GraceGiven(d) == IF d.gracePeriodDays = Unset THEN DefaultGracePeriodDays ELSE d.gracePeriodDays

\* C10: a save that carries billing and payment information sets isLate to
\* late exactly when the balance is positive, now is after nextBillingDate
\* plus gracePeriodDays, and lastPaymentDate is absent or earlier than
\* nextBillingDate; in every other case it sets it to current.
C10_LateIffOverdue ==
  (comm.phase = "saved" /\ comm.data.hasBillingInfo /\ comm.data.hasPaymentInfo) =>
     LET d == comm.saved
     IN d.isLate =
          IF /\ Or0(d.accountBalance) > 0
             /\ d.nextBillingDate # NoDate
             /\ now > Midnight(d.nextBillingDate + GraceGiven(d))
             /\ (d.lastPaymentDate = NoDate \/ d.lastPaymentDate < d.nextBillingDate)
          THEN "late" ELSE "current"

\* C11: the late state is reached by the passing of time.  A save of an account
\* with a positive balance and no payment on or after its stored next billing
\* date, made later than that date plus the grace period, marks it late.
C11_LateByTime ==
  ( /\ comm.phase = "saved"
    /\ comm.data.hasBillingInfo /\ comm.data.hasPaymentInfo
    /\ Or0(comm.data.accountBalance) > 0
    /\ comm.data.nextBillingDate # NoDate
    /\ (comm.data.lastPaymentDate = NoDate
          \/ comm.data.lastPaymentDate < comm.data.nextBillingDate)
    /\ now > Midnight(comm.data.nextBillingDate + GraceGiven(comm.data)) )
  => comm.saved.isLate = "late"

\* C12: for the monthly, quarterly and annually cadences, every billing day
\* 1..31 and every reference date, the computed nextBillingDate is never a
\* calendar date earlier than the reference date.
C12_NeverInThePast ==
  (comm.phase = "saved" /\ comm.data.billingCadence \in {"monthly", "quarterly", "annually"})
    => comm.saved.nextBillingDate >= Day(now)

\* billing day 31 at the end of a February: the day has passed neither this
\* month nor ever, and the date overflows into March
C12_Witness ==
  /\ comm.phase = "saved" /\ comm.data.billingCadence = "monthly"
  /\ comm.data.billingDate = 31
  /\ MonthOf(Day(now)) = 1 /\ DateOf(Day(now)) = 29
  /\ MonthOf(comm.saved.nextBillingDate) = 2

\* C13: next-billing-date round trip.  For every cadence, billing day and
\* service start date, the date computed again with the reference time set to
\* the date first returned is never earlier than that date.
C13_RoundTrip ==
  comm.phase = "savedAgain" => comm.saved.nextBillingDate >= comm.first

\* a bi-weekly account started weeks ago: the second date is the next period
C13_Witness ==
  /\ comm.phase = "savedAgain" /\ comm.data.billingCadence = "bi-weekly"
  /\ comm.data.serviceStartDate # NoDate
  /\ Midnight(comm.data.serviceStartDate) + 4 * TicksPerWeek < Midnight(comm.first)
  /\ comm.saved.nextBillingDate = comm.first + 14

\* C14: a record created without an explicit paid or cancelled status is
\* pending, unless its due date plus the grace period has elapsed at creation
\* time: then it is overdue.
C14_InitialStatus ==
  (last.op = "create" /\ last.outcome = "ok" /\ last.given = "pending") =>
     records[last.rec].status =
       IF now > Midnight(records[last.rec].dueDate + accounts["acc1"].gracePeriodDays)
       THEN "overdue" ELSE "pending"

\* C15: the automatic overdue check only turns pending into overdue.  A write
\* that carries no status leaves the status as it was or turns pending into
\* overdue, and a write that carries one stores it, or overdue in place of
\* pending.
C15_OnlyPendingToOverdue ==
  [][ \A r \in RecIds :
        (records[r].exists /\ last'.op = "update" /\ last'.rec = r) =>
           LET from == IF last'.given = NoStatus THEN records[r].status ELSE last'.given
           IN \/ records'[r].status = from
              \/ from = "pending" /\ records'[r].status = "overdue" ]_vars

\* C17: for every gracePeriodDays >= 0, 0 included, the reconciliation treats a
\* bill as overdue exactly when now is after its due date plus gracePeriodDays
\* days.  For an open bill that leaves a positive balance on an account without
\* payments, the account is late exactly then.
C17_OverdueAfterGrace ==
  ( /\ last.op = "create" /\ last.outcome = "ok"
    /\ last.given \in {"pending", "overdue"}
    /\ accounts["acc1"].accountBalance > 0 )
  => ( accounts["acc1"].isLate = "late"
         <=> now > Midnight(records[last.rec].dueDate + accounts["acc1"].gracePeriodDays) )

\* The due date of record r plus the grace period of its account has elapsed
\* and the record is neither paid nor cancelled
Elapsed(r) ==
  /\ records[r].exists /\ BillOpen(records[r])
  /\ now > Midnight(records[r].dueDate + accounts["acc1"].gracePeriodDays)

\* C16: every record that is neither paid nor cancelled and whose due date
\* plus grace period has elapsed eventually has status overdue, by time
\* passing and the record being read, without a further write to it.
C16_EventuallyOverdue ==
  \A r \in RecIds : Elapsed(r) ~> (records[r].exists /\ records[r].status = "overdue")

\* C18: billing numbers are collision-free.  After any sequence of creates and
\* deletes executed one at a time, the number generated for a new record
\* differs from the number of every record that exists.
C18_NumbersCollisionFree ==
  (last.op = "create" /\ bills.generated # 0) =>
     \A i \in BillIds \ {last.rec} : bills.number[i] # bills.generated

\* C19: identifier generation tolerates concurrent callers.  When two creates
\* run concurrently, both succeed and the two records have distinct numbers.
C19_ConcurrentCreates ==
  (\A p \in Procs : conc.procs[p].pc \in {"created", "rejected"}) =>
     /\ \A p \in Procs : conc.procs[p].pc = "created"
     /\ bills.number[1] # bills.number[2]

\* C20: replay idempotence.  When the reconciliation of a mutation that was
\* already applied runs a second time (same record, same operation, same
\* previous snapshot), the account balance stays at its value after the first
\* run.
C20_ReplayIdempotent ==
  LET m == conc.procs[1].mut
      applied == ApplyUpdate(conc.base, HookData(conc.base, m, now))
  IN (/\ \A p \in Procs : conc.procs[p].pc = "done"
      /\ conc.procs[2].mut = m
      /\ conc.procs[1].account = conc.base
      /\ conc.procs[2].account = applied)
     => accounts["acc1"].accountBalance = applied.accountBalance

\* The document the reconciliation of the submitted mutation is given: the
\* record as written or, for a delete, the record removed
Reconciled == IF last.op = "delete" THEN req.prev ELSE records[1]

\* C21: when a record stays paid and its paidAmount changes from p to q, the
\* amount unchanged, the balance becomes max(0, balance + p - q) and
\* lastPaymentAmount becomes q when q > 0.
C21_PaidAmountChange ==
  ( /\ last.op = "update" /\ last.outcome = "ok"
    /\ req.prev.status = "paid" /\ records[1].status = "paid"
    /\ records[1].amount = req.prev.amount
    /\ records[1].account = req.prev.account
    /\ req.prev.paidAmount # Unset /\ records[1].paidAmount # Unset
    /\ records[1].paidAmount # req.prev.paidAmount )
  => LET a == records[1].account
         p == req.prev.paidAmount
         q == records[1].paidAmount
     IN /\ accounts[a].accountBalance = Max(0, req.before[a].accountBalance + p - q)
        /\ q > 0 => accounts[a].lastPaymentAmount = q

\* the paid amount of a paid record lowered: the balance rises by the difference
C21_Witness ==
  /\ last.op = "update" /\ last.outcome = "ok"
  /\ req.prev.status = "paid" /\ records[1].status = "paid"
  /\ records[1].account = "acc1" /\ req.prev.account = "acc1"
  /\ records[1].amount = req.prev.amount
  /\ req.prev.paidAmount = 2 /\ records[1].paidAmount = 1
  /\ accounts["acc1"].accountBalance = req.before["acc1"].accountBalance + 1
  /\ accounts["acc1"].lastPaymentAmount = 1

\* C22: a record written with a billing date and no due date gets the due date
\* billing date + 30 days; a due date the caller supplies is stored as given.
C22_DueDateDefault ==
  (last.op \in {"create", "update"} /\ last.result = "success") =>
     /\ (req.data.billingDate # NoDate /\ req.data.dueDate = NoDate)
          => records[1].dueDate = req.data.billingDate + 30
     /\ req.data.dueDate # NoDate => records[1].dueDate = req.data.dueDate

C22_Witness ==
  /\ last.op = "create" /\ last.result = "success"
  /\ req.data.billingDate = 1 /\ req.data.dueDate = NoDate
  /\ records[1].dueDate = 31 /\ records[1].status = "pending"

C24_AccountImmutable ==
  (last.op = "update" /\ req.prev.account # NoAccount) =>
     records[1].account = req.prev.account

\* C25: after every reconciled event the account's isLate is the lateness of
\* the account: late iff the new balance is positive, now is past the account's
\* nextBillingDate plus its grace period, and there is no payment on or after
\* nextBillingDate.
C25_LatenessOfAccount ==
  (last.op # "none" /\ last.outcome = "ok") =>
     LET acct == accounts[Reconciled.account]
     IN acct.isLate =
          IF /\ acct.accountBalance > 0
             /\ acct.nextBillingDate # NoDate
             /\ now > Midnight(acct.nextBillingDate + acct.gracePeriodDays)
             /\ (acct.lastPaymentDate = NoDate \/ acct.lastPaymentDate < acct.nextBillingDate)
          THEN "late" ELSE "current"

\* The account after the record of `data` is created as pending and then marked
\* paid with the paidAmount and paidDate of `data`
PendingThenPaid(account, data, t) ==
  LET d == BeforeChange([data EXCEPT !.status = "pending",
                                     !.paidAmount = Unset, !.paidDate = NoDate], t)
      open == [exists |-> TRUE, account |-> d.account, amount |-> d.amount,
               status |-> d.status, paidAmount |-> Unset, paidDate |-> NoDate,
               dueDate |-> d.dueDate, stripeInvoiceId |-> FALSE]
      a1 == ApplyUpdate(account, UpdateData(account, "create", open, open, t))
      paid == [open EXCEPT !.status = "paid", !.paidAmount = data.paidAmount,
                           !.paidDate = data.paidDate]
  IN ApplyUpdate(a1, UpdateData(a1, "update", paid, open, t))

\* C26: a record created with status paid leaves the balance and the last
\* payment of its account as creating it pending and then marking it paid does.
C26_CreatedPaid ==
  (last.op = "create" /\ last.outcome = "ok" /\ req.data.status = "paid") =>
     LET a == records[1].account
         two == PendingThenPaid(req.before[a], req.data, now)
     IN /\ accounts[a].accountBalance = two.accountBalance
        /\ accounts[a].lastPaymentAmount = two.lastPaymentAmount
        /\ accounts[a].lastPaymentDate = two.lastPaymentDate

\* C28: a create, update or delete of a record that references account A
\* changes no field of any other account.
C28_OtherAccountsUntouched ==
  last.op # "none" =>
     \A b \in Accts : b # Reconciled.account => accounts[b] = req.before[b]

\* a payment recorded on the second account
C28_Witness ==
  /\ last.op = "update" /\ last.outcome = "ok"
  /\ Reconciled.account = "acc2"
  /\ accounts["acc2"].lastPaymentAmount = 1
  /\ accounts["acc2"].accountBalance = 0
  /\ accounts["acc1"] = req.before["acc1"]

\* C29: the record updates the reconciliation issues itself re-enter the hook
\* and add nothing to the balance: a create of a record with amount a changes
\* the balance of its account by exactly +a.
C29_InternalUpdatesNeutral ==
  [][ (last'.op = "create" /\ last'.outcome = "ok") =>
        accounts'["acc1"].accountBalance =
          accounts["acc1"].accountBalance + records'[last'.rec].amount ]_vars

\* the invoice id was stored on the record by the hook's own update
C29_Witness ==
  /\ last.op = "create" /\ last.outcome = "ok"
  /\ records[last.rec].stripeInvoiceId
  /\ records[last.rec].amount > 0
  /\ accounts["acc1"].accountBalance > records[last.rec].amount

\* C30: a direct edit of gracePeriodDays or nextBillingDate that commits while
\* a reconciliation runs is preserved: once the reconciliation has written the
\* account, the edited field still holds the edited value.
C30_EditPreserved ==
  (conc.procs[1].pc = "done" /\ conc.edit # NoEdit) =>
     IF conc.edit.field = "gracePeriodDays"
     THEN accounts["acc1"].gracePeriodDays = conc.edit.value
     ELSE accounts["acc1"].nextBillingDate = conc.edit.value

\* C27: an invoice number is generated only for an invoice that has no number
\* yet or whose customer changed: a save of an existing invoice that keeps its
\* customer leaves its invoice number unchanged.
C27_NumberKept ==
  [][ \A i \in InvIds :
        ( /\ invoices[i].exists
          /\ last'.op = "save" /\ last'.rec = i /\ last'.result = "success"
          /\ invoices'[i].customer = invoices[i].customer )
        => invoices'[i].number = invoices[i].number ]_vars

====
